---- MODULE Spec2Model ----
(***************************************************************************)
(* The RDFI periodic scheduler of achgateway                                *)
(* (internal/incoming/rdfi/scheduler.go): the Start dispatch loop over the *)
(* ticker, the manual trigger channel and the shutdown context, and        *)
(* tickAll's pass over the configured shard names under the per-shard      *)
(* leader lock.  Several scheduler instances share one lock backend.       *)
(***************************************************************************)
EXTENDS Integers, Sequences, FiniteSets, TLC

\* ------------------------------------------------------------------ bounds
NumInstances == 2       \* scheduler processes in the cluster
MaxShards == 2          \* longest configured shard_names list
MaxTriggers == 2        \* manual trigger requests per instance
MaxShutdownCalls == 2   \* Shutdown() calls per instance

\* The trigger channel made one slot larger.
TriggerCapacityWider == 1 + 1

\* make(chan manuallyTriggeredInbound, 1)
TriggerCapacity == 1

Instances == 1..NumInstances
TriggerIds == 1..MaxTriggers

\* The shard table (service.Sharding) knows "a" and "b"; "x" is a name that
\* may be configured in shard_names but is missing from the table.
ShardTable == {"a", "b"}
Names == ShardTable \cup {"x"}

\* Go's nil error is the empty tuple and an error is a non-empty tuple of strings;
\* Unset stands for a result that has not been produced yet.
Nil == <<>>
Off == [pc |-> "off"]
Unset == <<"unset">>
None == "none"

RECURSIVE SeqsUpTo(_, _)
SeqsUpTo(S, n) ==
    IF n = 0 THEN {<<>>}
    ELSE LET shorter == SeqsUpTo(S, n - 1)
         IN  shorter \cup {Append(q, x) : q \in {r \in shorter : Len(r) = n - 1}, x \in S}

\* Every shard_names list of at most MaxShards names.
Configs == SeqsUpTo(Names, MaxShards)

VARIABLES
    members,         \* the scheduler instances that exist in this cluster
    observed,        \* what is being recorded: "pass" (trace, alerts), "calls" (shutdownCalls)
    shardNames,      \* s.odfi.ShardNames, the same configuration on every instance
    pc,              \* pc[i]: where instance i's control task is
    idx,             \* idx[i]: position of tickAll's range loop in shardNames
    waiter,          \* waiter[i]: the trigger Start dequeued and has not answered (0: none)
    inboundTrigger,  \* inboundTrigger[i]: the buffered trigger channel
    submitted,       \* submitted[i]: manual triggers posted so far (ids 1..submitted[i])
    rejected,        \* rejected[i]: triggers the admin surface refused
    served,          \* served[i][t]: passes started for trigger t and its reply channel
    shutdown,        \* shutdown[i]: s.shutdown is cancelled
    shutdownCalls,   \* shutdownCalls[i]: Shutdown() calls so far, while "calls" is recorded
    held,            \* lock backend: the <<instance, leader key>> pairs held
    trace,           \* trace[i]: what the pass in progress did, in order
    alerts,          \* alerts[i]: the errors the pass in progress gave to AlertError
    ret,             \* ret[i]: what the last finished tickAll returned
    active,          \* active[i]: tickAll passes begun and not returned
    startRet,        \* startRet[i]: what Start returned
    tk,              \* the one tick followed step by step (Off: none is followed)
    hd               \* the one file given to the processors (Off: none is given)

\* What no step of the dispatch loop changes.
setup == <<members, observed, shardNames, tk, hd>>
admin == <<inboundTrigger, submitted, rejected>>
cancel == <<shutdown, shutdownCalls>>

vars == <<setup, admin, cancel, pc, idx, waiter, served, held, trace, alerts, ret,
          active, startRet>>

\* leaderKey := fmt.Sprintf("achgateway/rdfi/%s", shardName): one key per shard name.
leaderKey(name) == <<"achgateway/rdfi", name>>

Holders(key) == {i \in Instances : <<i, key>> \in held}

Event(k, n, e) == [kind |-> k, shard |-> n, err |-> e]

\* The per-pass logs grow only while they are being recorded.
Log(q, e) == IF "pass" \in observed THEN Append(q, e) ELSE q

\* The shard tickAll's loop is at.
cur(i) == shardNames[idx[i]]

InPass(i) == pc[i] \in {"loop", "tick"}

\* The state NewPeriodicScheduler leaves each instance in, before Start.
Constructed ==
    /\ pc = [i \in Instances |-> "notStarted"]
    /\ idx = [i \in Instances |-> 1]
    /\ waiter = [i \in Instances |-> 0]
    /\ inboundTrigger = [i \in Instances |-> <<>>]
    /\ submitted = [i \in Instances |-> 0]
    /\ rejected = [i \in Instances |-> {}]
    /\ served = [i \in Instances |-> [t \in TriggerIds |-> [passes |-> 0, reply |-> <<>>]]]
    /\ shutdown = [i \in Instances |-> FALSE]
    /\ shutdownCalls = [i \in Instances |-> 0]
    /\ held = {}
    /\ trace = [i \in Instances |-> <<>>]
    /\ alerts = [i \in Instances |-> <<>>]
    /\ ret = [i \in Instances |-> Unset]
    /\ active = [i \in Instances |-> 0]
    /\ startRet = [i \in Instances |-> Unset]

\* One scheduler, any configuration, its passes logged.
Init ==
    /\ members = {1}
    /\ observed = {"pass", "calls"}
    /\ shardNames \in Configs
    /\ Constructed
    /\ tk = Off
    /\ hd = Off

\* Every scheduler of the cluster on one lock backend, any configuration.
ClusterInit ==
    /\ members = Instances
    /\ observed = {}
    /\ shardNames \in Configs
    /\ Constructed
    /\ tk = Off
    /\ hd = Off

\* ------------------------------------------------------- lock backend
\* consul.AcquireLock(logger, s.consul, leaderKey): nil only when this instance
\* holds the key afterwards, which the backend grants only while no other
\* session holds it; any call may also fail (key held elsewhere, backend
\* unreachable).  The outcomes are [err, locks] pairs, locks the keys held after.
AcquireLock(i, key) ==
    {[err |-> <<"lock unavailable">>, locks |-> held]}
        \cup IF Holders(key) \subseteq {i}
             THEN {[err |-> Nil, locks |-> held \cup {<<i, key>>}]}
             ELSE {}

\* ------------------------------------------------------------- tick
\* The places where tick returns an error, in the order tick reaches them.
TickSteps == <<"agent", "copy", "audit", "process", "remote", "zero", "local">>

\* What the scheduler sees of a tick is which step, if any, failed; a pass is
\* explored with no failure, an early one and a late one.
TickFaults == {None, TickSteps[2], TickSteps[Len(TickSteps)]}

\* tick(shard): nil, or the error of the step that failed.
tick(name, fault) ==
    IF fault = None THEN Nil ELSE <<name, fault>>

\* alertOnError without its nil guard.
alertOnErrorUnguarded(sent, err) == Log(sent, err)

\* alertOnError(err): no alert for a nil error, otherwise one AlertError(err);
\* an error from AlertError itself is only logged.
alertOnError(sent, err) ==
    IF err = Nil THEN sent ELSE Log(sent, err)

RECURSIVE FirstError(_)
FirstError(events) ==
    IF events = <<>> THEN Nil
    ELSE IF Head(events).err # Nil THEN Head(events).err
    ELSE FirstError(Tail(events))

\* tickAll handing back the first shard error instead of nil.
TickAllResultFirstError(events) == FirstError(events)

\* tickAll's result: "return nil" after the loop, whatever the pass did.
TickAllResult(events) == Nil

\* ------------------------------------------------------------ Start
StartCall(i) ==
    /\ pc[i] = "notStarted"
    /\ pc' = [pc EXCEPT ![i] = "select"]
    /\ UNCHANGED <<setup, admin, cancel, idx, waiter, served, held, trace, alerts, ret,
                   active, startRet>>

\* Shutdown(): cancels the shutdown context; a second cancel changes nothing.
Shutdown(i) ==
    /\ shutdownCalls[i] < MaxShutdownCalls
    /\ shutdownCalls' = IF "calls" \in observed
                        THEN [shutdownCalls EXCEPT ![i] = @ + 1]
                        ELSE shutdownCalls
    /\ shutdown' = [shutdown EXCEPT ![i] = TRUE]
    /\ trace' = IF InPass(i) /\ ~shutdown[i]
                THEN [trace EXCEPT ![i] =
                        Log(@, Event("shutdown", IF pc[i] = "tick" THEN cur(i) ELSE None, Nil))]
                ELSE trace
    /\ UNCHANGED <<setup, admin, pc, idx, waiter, served, held, alerts, ret, active,
                   startRet>>

\* The admin endpoint posts a waiter on the trigger channel: refused while the
\* scheduler is shutting down or while the channel is full.
TriggerInbound(i) ==
    /\ submitted[i] < MaxTriggers
    /\ LET t == submitted[i] + 1
       IN  /\ submitted' = [submitted EXCEPT ![i] = t]
           /\ IF shutdown[i] \/ Len(inboundTrigger[i]) >= TriggerCapacity
              THEN /\ rejected' = [rejected EXCEPT ![i] = @ \cup {t}]
                   /\ UNCHANGED inboundTrigger
              ELSE /\ inboundTrigger' = [inboundTrigger EXCEPT ![i] = Append(@, t)]
                   /\ UNCHANGED rejected
    /\ UNCHANGED <<setup, cancel, pc, idx, waiter, served, held, trace, alerts, ret,
                   active, startRet>>

\* Entering tickAll: the range loop starts at the first configured name.
BeginPass(i) ==
    /\ pc' = [pc EXCEPT ![i] = "loop"]
    /\ idx' = [idx EXCEPT ![i] = 1]
    /\ trace' = [trace EXCEPT ![i] = <<>>]
    /\ alerts' = [alerts EXCEPT ![i] = <<>>]
    /\ ret' = [ret EXCEPT ![i] = Unset]
    /\ active' = [active EXCEPT ![i] = @ + 1]

\* The ticker case starting the pass without waiting for it (go s.tickAll()).
TickerCaseAsync(i) ==
    /\ pc[i] \in {"select", "loop", "tick"}
    /\ BeginPass(i)
    /\ UNCHANGED <<setup, admin, cancel, waiter, served, held, startRet>>

\* case <-s.ticker.C: s.tickAll()
TickerCase(i) ==
    /\ pc[i] = "select"
    /\ BeginPass(i)
    /\ UNCHANGED <<setup, admin, cancel, waiter, served, held, startRet>>

\* The trigger case answering the waiter before it runs the pass.
TriggerCaseEarlyReply(i) ==
    /\ pc[i] = "select"
    /\ inboundTrigger[i] # <<>>
    /\ LET t == Head(inboundTrigger[i])
       IN  served' = [served EXCEPT ![i][t].passes = @ + 1, ![i][t].reply = Append(@, Nil)]
    /\ inboundTrigger' = [inboundTrigger EXCEPT ![i] = Tail(@)]
    /\ BeginPass(i)
    /\ UNCHANGED <<setup, submitted, rejected, cancel, waiter, held, startRet>>

\* case waiter := <-s.inboundTrigger: waiter.C <- s.tickAll()
TriggerCase(i) ==
    /\ pc[i] = "select"
    /\ inboundTrigger[i] # <<>>
    /\ LET t == Head(inboundTrigger[i])
       IN  /\ waiter' = [waiter EXCEPT ![i] = t]
           /\ served' = [served EXCEPT ![i][t].passes = @ + 1]
    /\ inboundTrigger' = [inboundTrigger EXCEPT ![i] = Tail(@)]
    /\ BeginPass(i)
    /\ UNCHANGED <<setup, submitted, rejected, cancel, held, startRet>>

\* The shutdown case leaving only the select (break) instead of returning.
ShutdownCaseBreak(i) ==
    /\ pc[i] = "select"
    /\ shutdown[i]
    /\ UNCHANGED vars

\* case <-s.shutdown.Done(): return nil
ShutdownCase(i) ==
    /\ pc[i] = "select"
    /\ shutdown[i]
    /\ pc' = [pc EXCEPT ![i] = "returned"]
    /\ startRet' = [startRet EXCEPT ![i] = Nil]
    /\ UNCHANGED <<setup, admin, cancel, idx, waiter, served, held, trace, alerts, ret,
                   active>>

\* ---------------------------------------------------------- tickAll
\* The loop body with the lock's error ignored: tick runs whatever AcquireLock said.
TickAllShardIgnoreLock(i) ==
    /\ pc[i] = "loop"
    /\ idx[i] <= Len(shardNames)
    /\ LET name == cur(i)
       IN  IF name \notin ShardTable
           THEN /\ trace' = [trace EXCEPT ![i] = Log(@, Event("missing", name, Nil))]
                /\ idx' = [idx EXCEPT ![i] = @ + 1]
                /\ UNCHANGED <<pc, held>>
           ELSE \E r \in AcquireLock(i, leaderKey(name)) :
                    /\ held' = r.locks
                    /\ trace' = [trace EXCEPT ![i] = Log(@, Event("tick", name, Nil))]
                    /\ pc' = [pc EXCEPT ![i] = "tick"]
                    /\ UNCHANGED idx
    /\ UNCHANGED <<setup, admin, cancel, waiter, served, alerts, ret, active, startRet>>

\* The loop body with the else missing: after "skipping ODFI processing" is
\* logged, tick runs all the same.
TickAllShardFallThrough(i) ==
    /\ pc[i] = "loop"
    /\ idx[i] <= Len(shardNames)
    /\ LET name == cur(i)
       IN  IF name \notin ShardTable
           THEN /\ trace' = [trace EXCEPT ![i] = Log(@, Event("missing", name, Nil))]
                /\ idx' = [idx EXCEPT ![i] = @ + 1]
                /\ UNCHANGED <<pc, held>>
           ELSE \E r \in AcquireLock(i, leaderKey(name)) :
                    /\ held' = r.locks
                    /\ trace' = [trace EXCEPT ![i] =
                                   IF r.err # Nil
                                   THEN Log(Log(@, Event("skip", name, Nil)), Event("tick", name, Nil))
                                   ELSE Log(@, Event("tick", name, Nil))]
                    /\ pc' = [pc EXCEPT ![i] = "tick"]
                    /\ UNCHANGED idx
    /\ UNCHANGED <<setup, admin, cancel, waiter, served, alerts, ret, active, startRet>>

\* One iteration of the range loop up to the call of tick: look the shard up,
\* try the leader lock, and either move on to the next name or enter tick.
TickAllShard(i) ==
    /\ pc[i] = "loop"
    /\ idx[i] <= Len(shardNames)
    /\ LET name == cur(i)
       IN  IF name \notin ShardTable
           THEN /\ trace' = [trace EXCEPT ![i] = Log(@, Event("missing", name, Nil))]
                /\ idx' = [idx EXCEPT ![i] = @ + 1]
                /\ UNCHANGED <<pc, held>>
           ELSE \E r \in AcquireLock(i, leaderKey(name)) :
                    /\ held' = r.locks
                    /\ IF r.err # Nil
                       THEN /\ trace' = [trace EXCEPT ![i] = Log(@, Event("skip", name, Nil))]
                            /\ idx' = [idx EXCEPT ![i] = @ + 1]
                            /\ UNCHANGED pc
                       ELSE /\ trace' = [trace EXCEPT ![i] = Log(@, Event("tick", name, Nil))]
                            /\ pc' = [pc EXCEPT ![i] = "tick"]
                            /\ UNCHANGED idx
    /\ UNCHANGED <<setup, admin, cancel, waiter, served, alerts, ret, active, startRet>>

\* tick's return followed by an explicit release of the shard's leader key.
TickReturnRelease(i) ==
    /\ pc[i] = "tick"
    /\ \E fault \in TickFaults :
          LET err == tick(cur(i), fault)
          IN  /\ trace' = [trace EXCEPT ![i] =
                             Log(@, Event(IF err = Nil THEN "ok" ELSE "err", cur(i), err))]
              /\ alerts' = [alerts EXCEPT ![i] = alertOnError(@, err)]
    /\ held' = held \ {<<i, leaderKey(cur(i))>>}
    /\ idx' = [idx EXCEPT ![i] = @ + 1]
    /\ pc' = [pc EXCEPT ![i] = "loop"]
    /\ UNCHANGED <<setup, admin, cancel, waiter, served, ret, active, startRet>>

\* tick(shard) returns: its error goes to the alerter, and the loop moves on.
TickReturn(i) ==
    /\ pc[i] = "tick"
    /\ \E fault \in TickFaults :
          LET err == tick(cur(i), fault)
          IN  /\ trace' = [trace EXCEPT ![i] =
                             Log(@, Event(IF err = Nil THEN "ok" ELSE "err", cur(i), err))]
              /\ alerts' = [alerts EXCEPT ![i] = alertOnError(@, err)]
    /\ idx' = [idx EXCEPT ![i] = @ + 1]
    /\ pc' = [pc EXCEPT ![i] = "loop"]
    /\ UNCHANGED <<setup, admin, cancel, waiter, served, held, ret, active, startRet>>

\* tickAll leaving its loop as soon as the shutdown context is cancelled.
TickAllReturnOnShutdown(i) ==
    /\ pc[i] = "loop"
    /\ idx[i] > Len(shardNames) \/ shutdown[i]
    /\ LET result == TickAllResult(trace[i])
       IN  /\ ret' = [ret EXCEPT ![i] = result]
           /\ served' = IF waiter[i] # 0
                        THEN [served EXCEPT ![i][waiter[i]].reply = Append(@, result)]
                        ELSE served
    /\ waiter' = [waiter EXCEPT ![i] = 0]
    /\ active' = [active EXCEPT ![i] = @ - 1]
    /\ trace' = [trace EXCEPT ![i] = <<>>]
    /\ alerts' = [alerts EXCEPT ![i] = <<>>]
    /\ pc' = [pc EXCEPT ![i] = "select"]
    /\ UNCHANGED <<setup, admin, cancel, idx, held, startRet>>

\* The range loop is exhausted: tickAll returns, and Start, when the pass came
\* from a manual trigger, sends the result on the waiter's reply channel.
TickAllReturn(i) ==
    /\ pc[i] = "loop"
    /\ idx[i] > Len(shardNames)
    /\ LET result == TickAllResult(trace[i])
       IN  /\ ret' = [ret EXCEPT ![i] = result]
           /\ served' = IF waiter[i] # 0
                        THEN [served EXCEPT ![i][waiter[i]].reply = Append(@, result)]
                        ELSE served
    /\ waiter' = [waiter EXCEPT ![i] = 0]
    /\ active' = [active EXCEPT ![i] = @ - 1]
    /\ trace' = [trace EXCEPT ![i] = <<>>]
    /\ alerts' = [alerts EXCEPT ![i] = <<>>]
    /\ pc' = [pc EXCEPT ![i] = "select"]
    /\ UNCHANGED <<setup, admin, cancel, idx, held, startRet>>

\* The lock backend drops the session of a scheduler whose process has ended,
\* and with it every key the session held.
SessionExpire(i) ==
    /\ pc[i] = "returned"
    /\ \E h \in held : h[1] = i
    /\ held' = {h \in held : h[1] # i}
    /\ UNCHANGED <<setup, admin, cancel, pc, idx, waiter, served, trace, alerts, ret,
                   active, startRet>>

\* One scheduler with its admin endpoint.
Next ==
    \E i \in members :
        \/ StartCall(i)
        \/ Shutdown(i)
        \/ TriggerInbound(i)
        \/ TickerCase(i)
        \/ TriggerCase(i)
        \/ ShutdownCase(i)
        \/ TickAllShard(i)
        \/ TickReturn(i)
        \/ TickAllReturn(i)
        \/ SessionExpire(i)

Spec == Init /\ [][Next]_vars

\* The schedulers of a cluster, driven by their tickers.
ClusterNext ==
    \E i \in members :
        \/ StartCall(i)
        \/ Shutdown(i)
        \/ TickerCase(i)
        \/ ShutdownCase(i)
        \/ TickAllShard(i)
        \/ TickReturn(i)
        \/ TickAllReturn(i)
        \/ SessionExpire(i)

ClusterSpec == ClusterInit /\ [][ClusterNext]_vars

\* The dispatch loop under the scheduling the select and the passes provide: a
\* pass that has begun keeps running until it returns, and a select that finds
\* the shutdown context cancelled again and again takes that case in the end.
Fairness ==
    \A i \in Instances :
        /\ WF_vars(TickAllShard(i))
        /\ WF_vars(TickReturn(i))
        /\ WF_vars(TickAllReturn(i))
        /\ SF_vars(ShutdownCase(i))

\* One scheduler, any configuration, its Shutdown calls counted.
LiveInit ==
    /\ members = {1}
    /\ observed = {"calls"}
    /\ shardNames \in Configs
    /\ Constructed
    /\ tk = Off
    /\ hd = Off

LiveSpec == LiveInit /\ [][Next]_vars /\ Fairness

\* ------------------------------------------------------------ properties
IsAttempt(e) == e.kind \in {"missing", "skip", "tick"}
IsError(e) == e.kind = "err"

\* The shard names a pass has attempted so far, in order.
Attempted(q) ==
    LET a == SelectSeq(q, IsAttempt) IN [k \in 1..Len(a) |-> a[k].shard]

\* The errors the ticks of a pass have returned so far, in order.
ErrorsOf(q) ==
    LET e == SelectSeq(q, IsError) IN [k \in 1..Len(e) |-> e[k].err]

KeysOf(i) == {h \in held : h[1] = i}

\* C1: with several schedulers running tickAll concurrently, every leader key
\* has at most one holder, a scheduler is inside tick(S) only while it alone
\* holds S's key, it enters tick(S) only in the step in which AcquireLock
\* granted it that key, and no two schedulers are inside tick(S) together.
C1_LeaderExclusive ==
    /\ [](\A n \in Names : Cardinality(Holders(leaderKey(n))) <= 1)
    /\ [](\A i \in members : pc[i] = "tick" => Holders(leaderKey(cur(i))) = {i})
    /\ [](\A i, j \in members :
            (i # j /\ pc[i] = "tick" /\ pc[j] = "tick") => cur(i) # cur(j))
    /\ [][\A i \in members :
            (pc[i] # "tick" /\ pc'[i] = "tick") =>
                /\ pc[i] = "loop"
                /\ \E r \in AcquireLock(i, leaderKey(cur(i))) : r.err = Nil /\ held' = r.locks]_vars

\* Two schedulers are inside tick at once, and a third party would find both
\* keys taken.
C1_Witness ==
    /\ Cardinality(members) >= 2
    /\ \E i, j \in members :
          /\ i # j
          /\ pc[i] = "tick" /\ pc[j] = "tick"
          /\ Holders(leaderKey(cur(i))) = {i}
          /\ Holders(leaderKey(cur(j))) = {j}

\* C2: tickAll returns nil whatever happened to the shards of the pass, and when
\* the loop ends every configured name has been attempted, in order, however
\* the earlier ones ended.
C2_TickAllNil ==
    \A i \in members :
        /\ ret[i] # Unset => ret[i] = Nil
        /\ (pc[i] = "loop" /\ idx[i] > Len(shardNames)) => Attempted(trace[i]) = shardNames

\* A pass is about to return after a shard failed and a later one was attempted.
C2_Witness ==
    /\ pc[1] = "loop" /\ idx[1] > Len(shardNames)
    /\ \E p, q \in 1..Len(trace[1]) :
          p < q /\ trace[1][p].kind = "err" /\ IsAttempt(trace[1][q])

\* C3: a step of tickAll in which the leader lock is refused does not enter
\* tick, sends no alert, takes no key, and leaves the loop at the next name.
C3_LockFailureSkips ==
    [][\A i \in members :
          (\E p \in (Len(trace[i]) + 1)..Len(trace'[i]) : trace'[i][p].kind = "skip") =>
              /\ pc[i] = "loop" /\ pc'[i] = "loop"
              /\ idx'[i] = idx[i] + 1
              /\ alerts'[i] = alerts[i]
              /\ held' = held
              /\ Len(trace'[i]) = Len(trace[i]) + 1]_vars

\* A shard was skipped for its lock and a later shard of the same pass is in tick.
C3_Witness ==
    \E p, q \in 1..Len(trace[1]) :
        p < q /\ trace[1][p].kind = "skip" /\ trace[1][q].kind = "tick"

\* C4: within a pass the alerter has been given exactly the errors the ticks
\* returned, each once and in order; nothing for a tick that succeeded, a lock
\* that was refused or a name missing from the shard table.
C4_AlertPerFailedTick ==
    \A i \in members : alerts[i] = ErrorsOf(trace[i])

\* Shard "a" failed, shard "b" succeeded, and exactly one alert carries a's error.
C4_Witness ==
    /\ shardNames = <<"a", "b">>
    /\ pc[1] = "loop" /\ idx[1] > Len(shardNames)
    /\ \E p, q \in 1..Len(trace[1]) :
          /\ trace[1][p].kind = "err" /\ trace[1][p].shard = "a"
          /\ trace[1][q].kind = "ok" /\ trace[1][q].shard = "b"
          /\ alerts[1] = <<trace[1][p].err>>

ShutdownDuringTick(e) == e.kind = "shutdown" /\ e.shard # None

\* C5 (as claimed): once the shutdown signal has been raised while a shard was
\* in tick, the pass starts no later shard.
C5_NoShardAfterShutdown ==
    \A i \in members : \A p, q \in 1..Len(trace[i]) :
        (p < q /\ ShutdownDuringTick(trace[i][p])) => ~IsAttempt(trace[i][q])

\* C5 (amended): a pass that is running when the shutdown context is cancelled
\* goes on exactly as without it, the shard in flight to completion and every
\* later name attempted, and ends only with the list exhausted; Start returns
\* only from its select, between passes.
C5_ShutdownBetweenPasses ==
    /\ [][\A i \in members :
            (InPass(i) /\ shutdown[i] /\ pc'[i] # pc[i]) =>
                \/ pc[i] = "tick" /\ pc'[i] = "loop" /\ idx'[i] = idx[i] + 1
                \/ pc[i] = "loop" /\ pc'[i] = "tick" /\ idx'[i] = idx[i]
                \/ /\ pc[i] = "loop" /\ pc'[i] = "select"
                   /\ idx[i] > Len(shardNames)
                   /\ Attempted(trace[i]) = shardNames]_vars
    /\ [][\A i \in members :
            (pc[i] # "returned" /\ pc'[i] = "returned") =>
                pc[i] = "select" /\ shutdown[i] /\ active[i] = 0]_vars

\* The shutdown signal came while a shard was in tick, and a later shard of the
\* same pass has been started.
C5_Witness ==
    \E p, q \in 1..Len(trace[1]) :
        p < q /\ ShutdownDuringTick(trace[1][p]) /\ trace[1][q].kind = "tick"

\* Triggers enqueued, or dequeued and not yet answered.
Outstanding(i) == Len(inboundTrigger[i]) + (IF waiter[i] # 0 THEN 1 ELSE 0)

C7_TriggerReply ==
    /\ [](\A i \in members : \A t \in TriggerIds :
            /\ served[i][t].passes <= 1
            /\ Len(served[i][t].reply) <= 1
            /\ served[i][t].reply # <<>> =>
                  served[i][t].passes = 1 /\ served[i][t].reply = <<Nil>> /\ waiter[i] # t
            /\ (served[i][t].passes = 1 /\ served[i][t].reply = <<>>) =>
                  waiter[i] = t /\ InPass(i)
            /\ waiter[i] = t => served[i][t].passes = 1 /\ served[i][t].reply = <<>>)
    /\ [][\A i \in members : \A t \in TriggerIds :
            served'[i][t].reply # served[i][t].reply =>
                /\ pc[i] = "loop" /\ idx[i] > Len(shardNames) /\ waiter[i] = t
                /\ Attempted(trace[i]) = shardNames
                /\ served'[i][t].reply = Append(served[i][t].reply, ret'[i])
                /\ pc'[i] = "select" /\ waiter'[i] = 0]_vars
    /\ [][\A i \in members : \A t \in TriggerIds :
            served'[i][t].passes # served[i][t].passes =>
                /\ pc[i] = "select" /\ inboundTrigger[i] # <<>> /\ Head(inboundTrigger[i]) = t
                /\ pc'[i] = "loop" /\ idx'[i] = 1 /\ waiter'[i] = t]_vars

\* A trigger has been answered after a pass over a non-empty shard list, and
\* the next trigger is waiting in the channel.
C7_Witness ==
    /\ shardNames # <<>>
    /\ served[1][1].reply = <<Nil>>
    /\ inboundTrigger[1] = <<2>>
    /\ pc[1] = "select"

\* C8: once Shutdown has been called, however often and also before Start,
\* the context stays cancelled, a running Start returns nil in the end, and
\* after that no pass begins.
C8_ShutdownStopsStart ==
    /\ \A i \in Instances :
          (shutdown[i] /\ pc[i] # "notStarted") ~> (pc[i] = "returned" /\ startRet[i] = Nil)
    /\ [][\A i \in Instances : shutdown[i] => shutdown'[i]]_vars
    /\ [][\A i \in Instances :
            pc[i] = "returned" =>
                pc'[i] = "returned" /\ active'[i] = 0 /\ startRet'[i] = Nil]_vars

\* Start has returned nil after Shutdown was called MaxShutdownCalls times.
C8_Witness ==
    /\ pc[1] = "returned" /\ startRet[1] = Nil
    /\ shutdownCalls[1] = MaxShutdownCalls
    /\ active[1] = 0

\* C9 (as claimed): a scheduler holds a leader key only while it is inside
\* tick; none once the tick has completed or the pass has returned.
C9_ReleasedAfterTick ==
    \A i \in members : pc[i] # "tick" => KeysOf(i) = {}

\* C9 (amended): tickAll never gives a key up: a scheduler whose Start has not
\* returned keeps every key it holds, so the key of each shard ticked in a
\* pass is still held when the tick completes and when the pass returns.
C9_KeptAfterTick ==
    /\ [][\A i \in members : pc[i] # "returned" => KeysOf(i) \subseteq held']_vars
    /\ [](\A i \in members : \A p \in 1..Len(trace[i]) :
            trace[i][p].kind = "tick" => <<i, leaderKey(trace[i][p].shard)>> \in held)

\* A pass has returned and the scheduler, back in its select, still holds a key.
C9_Witness ==
    /\ pc[1] = "select" /\ ret[1] = Nil
    /\ KeysOf(1) # {}

IsTickStart(e) == e.kind = "tick"
IsTickEnd(e) == e.kind \in {"ok", "err"}

\* C10: a scheduler has at most one pass in progress, and only between the
\* select that began it and its return; within the pass the names attempted so
\* far are the configured list up to the loop's position, in order, and at
\* most one tick is open, the one the loop is waiting in.
C10_Sequential ==
    \A i \in members :
        /\ active[i] \in {0, 1}
        /\ active[i] = 1 <=> InPass(i)
        /\ ~InPass(i) => trace[i] = <<>>
        /\ InPass(i) =>
              /\ idx[i] \in 1..(Len(shardNames) + 1)
              /\ Attempted(trace[i]) =
                    SubSeq(shardNames, 1, IF pc[i] = "tick" THEN idx[i] ELSE idx[i] - 1)
              /\ Len(SelectSeq(trace[i], IsTickStart)) - Len(SelectSeq(trace[i], IsTickEnd))
                    = IF pc[i] = "tick" THEN 1 ELSE 0

\* The second shard is in tick after the first one finished, while a manual
\* trigger waits in the channel for the pass to end.
C10_Witness ==
    /\ pc[1] = "tick" /\ idx[1] = 2
    /\ \E p \in 1..Len(trace[1]) : IsTickEnd(trace[1][p])
    /\ inboundTrigger[1] # <<>>

\* ------------------------------------------------------ one tick, step by step
MaxFiles == 2           \* files in the remote listing of one tick

\* A remote file: its downloaded size is zero or not, its download succeeds or
\* not, the audit trail accepts it or not.
RemoteFile == [zero : BOOLEAN, fetched : BOOLEAN, saved : BOOLEAN]

\* s.odfi.Storage
Storage ==
    [KeepRemoteFiles : BOOLEAN, RemoveZeroByteFiles : BOOLEAN,
     CleanupLocalDirectory : BOOLEAN]

\* The call of tick, other than the download and the audit save, that fails in
\* the tick followed (if tick reaches it).
CallFaults == {None} \cup ({TickSteps[k] : k \in 1..Len(TickSteps)} \ {"copy"})

\* s.processors: two registered processors, in registration order.
Processors == <<"first", "second">>

\* A call tick makes (file 0) or what a call does to file number f.
Op(o, f, p) == [op |-> o, file |-> f, by |-> p]
Call(o) == Op(o, 0, None)

RECURSIVE Fetched(_, _)
\* The positions of the listing, from k on, whose download succeeds.
Fetched(remote, k) ==
    IF k > Len(remote) THEN <<>>
    ELSE (IF remote[k].fetched THEN <<k>> ELSE <<>>) \o Fetched(remote, k + 1)

\* s.downloader.CopyFilesFromRemote(agent): the bundle holds the files that could
\* be retrieved, and an error is returned when some file could not.
CopyFilesFromRemote(remote) ==
    [dl  |-> Fetched(remote, 1),
     err |-> IF \E k \in 1..Len(remote) : ~remote[k].fetched
             THEN <<"download">> ELSE Nil]

\* processDir's handling of one file with Handle called ahead of the audit save.
processFileHandleFirst(f, file, failing) ==
    [ops |-> [k \in 1..Len(Processors) |-> Op("Handle", f, Processors[k])]
                 \o <<Op("SaveFile", f, None)>>,
     err |-> IF ~file.saved THEN <<"audit", f>>
             ELSE IF failing THEN <<"handle", f>> ELSE Nil]

\* processDir's handling of one file: the audit save, then, unless it failed,
\* Handle of every processor in registration order; a processor's error is
\* recorded and the remaining processors still run.
processFile(f, file, failing) ==
    IF ~file.saved
    THEN [ops |-> <<Op("SaveFile", f, None)>>, err |-> <<"audit", f>>]
    ELSE [ops |-> <<Op("SaveFile", f, None)>>
                      \o [k \in 1..Len(Processors) |-> Op("Handle", f, Processors[k])],
          err |-> IF failing THEN <<"handle", f>> ELSE Nil]

RECURSIVE ProcessFiles(_, _, _)
\* ProcessFiles(dl, auditSaver, s.processors): every file of the bundle in order;
\* the errors are gathered and returned as one.
ProcessFiles(dl, remote, failing) ==
    IF dl = <<>> THEN [ops |-> <<>>, err |-> Nil]
    ELSE LET one  == processFile(Head(dl), remote[Head(dl)], failing)
             rest == ProcessFiles(Tail(dl), remote, failing)
         IN  [ops |-> one.ops \o rest.ops, err |-> one.err \o rest.err]

\* Cleanup(s.logger, agent, dl): deletes every remote file of the bundle.
Cleanup(dl) == [k \in 1..Len(dl) |-> Op("Delete", dl[k], "Cleanup")]

RECURSIVE CleanupEmptyFiles(_, _)
\* CleanupEmptyFiles(s.logger, agent, dl): deletes the remote files of the bundle
\* whose downloaded size is zero.
CleanupEmptyFiles(dl, remote) ==
    IF dl = <<>> THEN <<>>
    ELSE (IF remote[Head(dl)].zero
          THEN <<Op("Delete", Head(dl), "CleanupEmptyFiles")>> ELSE <<>>)
             \o CleanupEmptyFiles(Tail(dl), remote)

\* The shard whose tick is followed.
TickShard == "a"

\* tick goes on to its next step after the calls and effects in ops.
Continue(step, ops) ==
    tk' = [tk EXCEPT !.pc = step, !.ops = tk.ops \o ops]

\* tick returns err after the calls and effects in ops.
Return(err, ops) ==
    tk' = [tk EXCEPT !.pc = "done", !.ops = tk.ops \o ops, !.err = err]

\* Everything but the tick followed.
others == <<members, observed, shardNames, hd, admin, cancel, pc, idx, waiter, served,
          held, trace, alerts, ret, active, startRet>>

\* agent, err := upload.New(...)
TickAgent ==
    /\ tk.pc = "agent"
    /\ IF tk.fault = "agent"
       THEN Return(tick(TickShard, "agent"), <<Call("New")>>)
       ELSE Continue("copy", <<Call("New")>>)
    /\ UNCHANGED others

\* The download step going on with the bundle when it reports an error.
TickCopyContinue ==
    /\ tk.pc = "copy"
    /\ LET r == CopyFilesFromRemote(tk.remote)
       IN  tk' = [tk EXCEPT !.pc = "audit", !.dl = r.dl,
                            !.ops = tk.ops \o <<Call("CopyFilesFromRemote")>>]
    /\ UNCHANGED others

\* dl, err := s.downloader.CopyFilesFromRemote(agent)
TickCopy ==
    /\ tk.pc = "copy"
    /\ LET r == CopyFilesFromRemote(tk.remote)
       IN  IF r.err # Nil
           THEN Return(tick(TickShard, "copy"), <<Call("CopyFilesFromRemote")>>)
           ELSE tk' = [tk EXCEPT !.pc = "audit", !.dl = r.dl,
                                 !.ops = tk.ops \o <<Call("CopyFilesFromRemote")>>]
    /\ UNCHANGED others

\* auditSaver, err := newAuditSaver(agent.Hostname(), s.odfi.Audit)
TickAuditSaver ==
    /\ tk.pc = "audit"
    /\ IF tk.fault = "audit"
       THEN Return(tick(TickShard, "audit"), <<Call("newAuditSaver")>>)
       ELSE Continue("process", <<Call("newAuditSaver")>>)
    /\ UNCHANGED others

\* The processing step going on to cleanup when ProcessFiles returns an error.
TickProcessFilesDropError ==
    /\ tk.pc = "process"
    /\ LET r == ProcessFiles(tk.dl, tk.remote, tk.fault = "process")
       IN  Continue("remote", <<Call("ProcessFiles")>> \o r.ops)
    /\ UNCHANGED others

\* if err := ProcessFiles(dl, auditSaver, s.processors); err != nil { return }
TickProcessFiles ==
    /\ tk.pc = "process"
    /\ LET r == ProcessFiles(tk.dl, tk.remote, tk.fault = "process")
       IN  IF r.err # Nil
           THEN Return(tick(TickShard, "process"), <<Call("ProcessFiles")>> \o r.ops)
           ELSE Continue("remote", <<Call("ProcessFiles")>> \o r.ops)
    /\ UNCHANGED others

\* The remote cleanup run whatever KeepRemoteFiles says.
TickCleanupAlways ==
    /\ tk.pc = "remote"
    /\ IF tk.fault = "remote"
       THEN Return(tick(TickShard, "remote"), <<Call("Cleanup")>>)
       ELSE Continue("zero", <<Call("Cleanup")>> \o Cleanup(tk.dl))
    /\ UNCHANGED others

\* The remote cleanup going on to the next step when Cleanup fails.
TickCleanupFallThrough ==
    /\ tk.pc = "remote"
    /\ IF tk.storage.KeepRemoteFiles
       THEN Continue("zero", <<>>)
       ELSE IF tk.fault = "remote"
            THEN Continue("zero", <<Call("Cleanup")>>)
            ELSE Continue("zero", <<Call("Cleanup")>> \o Cleanup(tk.dl))
    /\ UNCHANGED others

\* if !s.odfi.Storage.KeepRemoteFiles { if err := Cleanup(...); err != nil { return } }
TickCleanup ==
    /\ tk.pc = "remote"
    /\ IF tk.storage.KeepRemoteFiles
       THEN Continue("zero", <<>>)
       ELSE IF tk.fault = "remote"
            THEN Return(tick(TickShard, "remote"), <<Call("Cleanup")>>)
            ELSE Continue("zero", <<Call("Cleanup")>> \o Cleanup(tk.dl))
    /\ UNCHANGED others

\* if s.odfi.Storage.RemoveZeroByteFiles { if err := CleanupEmptyFiles(...); ... }
TickCleanupEmptyFiles ==
    /\ tk.pc = "zero"
    /\ IF ~tk.storage.RemoveZeroByteFiles
       THEN Continue("local", <<>>)
       ELSE IF tk.fault = "zero"
            THEN Return(tick(TickShard, "zero"), <<Call("CleanupEmptyFiles")>>)
            ELSE Continue("local", <<Call("CleanupEmptyFiles")>>
                                       \o CleanupEmptyFiles(tk.dl, tk.remote))
    /\ UNCHANGED others

\* if s.odfi.Storage.CleanupLocalDirectory { return dl.deleteFiles() }
\* return dl.deleteEmptyDirs(agent)
TickCleanupLocal ==
    /\ tk.pc = "local"
    /\ LET err == IF tk.fault = "local" THEN tick(TickShard, "local") ELSE Nil
       IN  IF tk.storage.CleanupLocalDirectory
           THEN Return(err, <<Call("deleteFiles")>>)
           ELSE Return(err, <<Call("deleteEmptyDirs")>>)
    /\ UNCHANGED others

\* tick(shard) about to start, for every storage policy, remote listing and
\* failing call.
TickInit ==
    /\ members = {}
    /\ observed = {}
    /\ shardNames = <<TickShard>>
    /\ Constructed
    /\ hd = Off
    /\ tk \in [pc : {"agent"}, storage : Storage,
               remote : SeqsUpTo(RemoteFile, MaxFiles), fault : CallFaults,
               dl : {<<>>}, ops : {<<>>}, err : {Unset}]

TickNext ==
    \/ TickAgent
    \/ TickCopy
    \/ TickAuditSaver
    \/ TickProcessFiles
    \/ TickCleanup
    \/ TickCleanupEmptyFiles
    \/ TickCleanupLocal

TickSpec == TickInit /\ [][TickNext]_vars

\* The positions in the log of the tick followed.
OpsAt == 1..Len(tk.ops)

TickDone == tk.pc = "done"

\* The listing positions whose download succeeded.
Retrieved == {k \in 1..Len(tk.remote) : tk.remote[k].fetched}

Called(o) == \E n \in OpsAt : tk.ops[n] = Call(o)

\* The download of the tick followed reported an error.
CopyFailed == Called("CopyFilesFromRemote") /\ CopyFilesFromRemote(tk.remote).err # Nil

\* The positions of the log where file f is audit-saved, and where it is handled.
SavesOf(f) == {n \in OpsAt : tk.ops[n] = Op("SaveFile", f, None)}
HandlesOf(f) == {n \in OpsAt : tk.ops[n].op = "Handle" /\ tk.ops[n].file = f}

\* C11 as stated: when the download step reports an error because some file
\* failed to download, the files that were retrieved are still audit-saved and
\* dispatched to the processors in that same tick.
C11_ContinuesAfterCopyError ==
    (TickDone /\ CopyFailed) =>
        \A f \in Retrieved :
            /\ SavesOf(f) # {}
            /\ tk.remote[f].saved => HandlesOf(f) # {}

\* C11 amended: when the download step reports an error, tick returns the
\* copy error at once; nothing is called after CopyFilesFromRemote, so no file,
\* retrieved or not, is audit-saved or handled in that tick.
C11_CopyErrorEndsTick ==
    CopyFailed =>
        /\ TickDone
        /\ tk.err = <<TickShard, "copy">>
        /\ tk.ops[Len(tk.ops)] = Call("CopyFilesFromRemote")
        /\ \A f \in 1..Len(tk.remote) : SavesOf(f) = {} /\ HandlesOf(f) = {}

\* A tick whose download reported an error although one file was retrieved and
\* another was not.
C11_Witness ==
    /\ TickDone
    /\ CopyFailed
    /\ Retrieved # {}
    /\ Len(tk.remote) = 2

RemoteDeletes == {n \in OpsAt : tk.ops[n].op = "Delete"}

\* C13 as stated: with keep_remote_files=true a tick invokes no remote delete,
\* whatever the other storage flags and the downloaded files are.
C13_KeepMeansNoRemoteDelete ==
    tk.storage.KeepRemoteFiles => RemoteDeletes = {}

\* C13 amended: with keep_remote_files=true tick does not call Cleanup; the only
\* remote deletes are those CleanupEmptyFiles makes of zero-byte downloaded
\* files, and only with remove_zero_byte_files=true.
C13_KeepLeavesZeroByteDeletes ==
    tk.storage.KeepRemoteFiles =>
        /\ ~Called("Cleanup")
        /\ \A n \in RemoteDeletes :
               /\ tk.ops[n].by = "CleanupEmptyFiles"
               /\ tk.storage.RemoveZeroByteFiles
               /\ tk.remote[tk.ops[n].file].zero

\* A finished tick with keep_remote_files=true that downloaded a zero-byte file
\* and a non-empty one and deleted the zero-byte one remotely.
C13_Witness ==
    /\ TickDone
    /\ tk.err = Nil
    /\ tk.storage.KeepRemoteFiles
    /\ RemoteDeletes # {}
    /\ \E f \in Retrieved : ~tk.remote[f].zero

CleanupCallNames == {"Cleanup", "CleanupEmptyFiles", "deleteFiles", "deleteEmptyDirs"}

IsCleanupCall(o) == o.file = 0 /\ o.op \in CleanupCallNames

\* The cleanup calls the tick followed has made, in order.
CleanupCalls ==
    LET calls == SelectSeq(tk.ops, IsCleanupCall)
    IN  [n \in 1..Len(calls) |-> calls[n].op]

\* The cleanup steps the storage policy asks for, in the order of the policy.
PlannedCleanup ==
    (IF tk.storage.KeepRemoteFiles THEN <<>> ELSE <<"Cleanup">>)
        \o (IF tk.storage.RemoveZeroByteFiles THEN <<"CleanupEmptyFiles">> ELSE <<>>)
        \o <<IF tk.storage.CleanupLocalDirectory THEN "deleteFiles" ELSE "deleteEmptyDirs">>

\* The cleanup call that fails in the tick followed, if it is made.
FailingCleanup ==
    CASE tk.fault = "remote" -> "Cleanup"
      [] tk.fault = "zero" -> "CleanupEmptyFiles"
      [] tk.fault = "local" ->
             IF tk.storage.CleanupLocalDirectory THEN "deleteFiles" ELSE "deleteEmptyDirs"
      [] OTHER -> None

\* The tick followed has got past ProcessFiles.
ReachedCleanup == tk.pc \in {"remote", "zero", "local"} \/ (TickDone /\ CleanupCalls # <<>>)

\* C14: the cleanup calls are made in the order remote delete, zero-byte delete,
\* one local step, each only under its flag; a call that fails ends the tick with
\* an error and no later cleanup call or delete is made.
C14_CleanupOrder ==
    /\ \E n \in 0..Len(PlannedCleanup) : CleanupCalls = SubSeq(PlannedCleanup, 1, n)
    /\ \A n \in RemoteDeletes : \E c \in 1..Len(CleanupCalls) : CleanupCalls[c] = tk.ops[n].by
    /\ \A c \in 1..Len(CleanupCalls) :
           CleanupCalls[c] = FailingCleanup =>
               /\ c = Len(CleanupCalls)
               /\ TickDone
               /\ tk.err = <<TickShard, tk.fault>>
               /\ \A n \in RemoteDeletes : tk.ops[n].by # FailingCleanup
    /\ (TickDone /\ ReachedCleanup) =>
           \/ tk.err = Nil /\ CleanupCalls = PlannedCleanup
           \/ tk.err # Nil /\ CleanupCalls[Len(CleanupCalls)] = FailingCleanup

\* A tick whose remote delete ran and whose zero-byte delete failed: it ended
\* with an error after two cleanup calls, the local step not made.
C14_Witness ==
    /\ TickDone
    /\ tk.fault = "zero"
    /\ tk.err # Nil
    /\ CleanupCalls = <<"Cleanup", "CleanupEmptyFiles">>
    /\ \E n \in RemoteDeletes : tk.ops[n].by = "Cleanup"

\* ------------------------------------------------- one file at the processors
MaxBatches == 2         \* batches in a parsed file

\* The letters file paths and path matchers are written with.
LowerRune(c) ==
    CASE c = "R" -> "r"
      [] c = "X" -> "x"
      [] OTHER -> c

\* strings.ToLower(s)
ToLower(s) == [n \in 1..Len(s) |-> LowerRune(s[n])]

\* strings.Contains(s, substr)
Contains(s, substr) ==
    \E i \in 0..(Len(s) - Len(substr)) : SubSeq(s, i + 1, i + Len(substr)) = substr

\* filepath.Base(path), for a path that does not end in a separator.
Base(path) ==
    LET seps == {n \in 1..Len(path) : path[n] = "/"}
    IN  IF seps = {} THEN path
        ELSE SubSeq(path, (CHOOSE n \in seps : \A m \in seps : m <= n) + 1, Len(path))

\* file.Filepath
Paths ==
    {<<"/", "r", "/", "x">>, <<"/", "R", "/", "x">>, <<"/", "x">>, <<"x", "/", "r">>}

\* cfg.PathMatcher
Matchers == {<<>>, <<"/", "r", "/">>, <<"/", "R", "/">>, <<"x">>}

\* An entry detail: its trace number and its Addenda98 change code, if any.
Entry(t, code) == [TraceNumber |-> t, Addenda98 |-> code]

\* batch.GetEntries()
EntryLists ==
    {<<>>, <<Entry(1, None)>>, <<Entry(1, "C01"), Entry(2, None)>>,
     <<Entry(1, "C03"), Entry(2, "C01")>>}

\* A batch as the reader found it: a notification of change or not, its entries.
BatchBodies == [Category : {"NOC", "other"}, Entries : EntryLists]

IsNOC(b) == b.Category = "NOC"

\* *ach.File: the batches, numbered by their headers in file order, and among
\* them the notification-of-change batches.
ParsedFile(bodies) ==
    LET batches == [i \in 1..Len(bodies) |->
                        [Header |-> i, Category |-> bodies[i].Category,
                         Entries |-> bodies[i].Entries]]
    IN  [Batches |-> batches, NotificationOfChange |-> SelectSeq(batches, IsNOC)]

ParsedFiles == {ParsedFile(bodies) : bodies \in SeqsUpTo(BatchBodies, MaxBatches)}

\* file.ACHFile == nil: the bytes did not parse.
NoFile == [nil |-> TRUE]

\* File{Filepath, ACHFile}
Files == [Filepath : Paths, ACHFile : ParsedFiles \cup {NoFile}]

\* pc.svc: no emitter, one whose Send succeeds, one whose Send returns an error.
Emitters == {"nil", "ok", "failing"}

\* What a call of Handle did: it returned err or it panicked, the events it gave
\* to svc.Send, the send errors it logged, the counter increments in order.
Handled(o, e, s, l, c) == [out |-> o, err |-> e, sent |-> s, logged |-> l, counted |-> c]

Skipped == Handled("returned", Nil, <<>>, <<>>, <<>>)

\* sendEvent(event): Send's error is logged and goes no further.
sendEvent(svc, event) ==
    IF svc # "nil"
    THEN [sent |-> <<event>>,
          logged |-> IF svc = "failing" THEN <<"error sending event">> ELSE <<>>]
    ELSE [sent |-> <<>>, logged |-> <<>>]

\* models.Batch{Header, Entries}
Batch(b) == [Header |-> b.Header, Entries |-> b.Entries]

\* func isCorrectionFile(file File) bool, on a parsed file.
isCorrectionFile(file) == Len(file.ACHFile.NotificationOfChange) >= 0

RECURSIVE CodesOfAll(_)
\* The change-code counter incremented for every entry.
CodesOfAll(entries) ==
    IF entries = <<>> THEN <<>>
    ELSE <<Head(entries).Addenda98>> \o CodesOfAll(Tail(entries))

RECURSIVE CodesOf(_)
\* The inner loop of Handle: correctionCodesProcessed...Add(1) with the change
\* code of every entry that has an Addenda98.
CodesOf(entries) ==
    IF entries = <<>> THEN <<>>
    ELSE (IF Head(entries).Addenda98 = None THEN <<>> ELSE <<Head(entries).Addenda98>>)
             \o CodesOf(Tail(entries))

RECURSIVE CorrectionCodes(_)
\* The outer loop of Handle over file.ACHFile.NotificationOfChange.
CorrectionCodes(noc) ==
    IF noc = <<>> THEN <<>>
    ELSE CodesOf(Head(noc).Entries) \o CorrectionCodes(Tail(noc))

\* func (pc *correctionProcessor) Handle(file File) error
correctionHandle(cfg, svc, file) ==
    IF file.ACHFile = NoFile
    THEN Handled("panic", Unset, <<>>, <<>>, <<>>)
    ELSE IF ~isCorrectionFile(file)
    THEN Skipped
    ELSE IF cfg.PathMatcher # <<>> /\ ~Contains(ToLower(file.Filepath), cfg.PathMatcher)
    THEN Skipped
    ELSE LET noc == file.ACHFile.NotificationOfChange
             msg == [Event |-> "CorrectionFile",
                     Filename |-> Base(file.Filepath),
                     File |-> file.ACHFile,
                     Corrections |-> [i \in 1..Len(noc) |-> Batch(noc[i])]]
             send == sendEvent(svc, msg)
         IN  Handled("returned", Nil, send.sent, send.logged, CorrectionCodes(noc))

\* func isReconciliationFile(cfg service.ODFIReconciliation, file File) bool
isReconciliationFile(cfg, file) ==
    IF ~cfg.Enabled THEN FALSE
    ELSE cfg.PathMatcher # <<>> /\ Contains(ToLower(file.Filepath), cfg.PathMatcher)

\* Every batch kept in the reconciliations, with or without entries.
ReconsKeepEmpty(batches) == [i \in 1..Len(batches) |-> Batch(batches[i])]

RECURSIVE Recons(_)
\* The loop of Handle over file.ACHFile.Batches: a batch is appended to recons
\* when it has entries.
Recons(batches) ==
    IF batches = <<>> THEN <<>>
    ELSE (IF Len(Head(batches).Entries) > 0 THEN <<Batch(Head(batches))>> ELSE <<>>)
             \o Recons(Tail(batches))

\* func (pc *creditReconciliation) Handle(file File) error
creditReconciliationHandle(cfg, svc, file) ==
    IF file.ACHFile = NoFile
    THEN Handled("returned", <<"nil ach.File">>, <<>>, <<>>, <<>>)
    ELSE IF ~isReconciliationFile(cfg, file)
    THEN Skipped
    ELSE LET recons == Recons(file.ACHFile.Batches)
             send == IF Len(recons) > 0
                     THEN sendEvent(svc, [Event |-> "ReconciliationFile",
                                          Filename |-> Base(file.Filepath),
                                          File |-> file.ACHFile,
                                          Reconciliations |-> recons])
                     ELSE [sent |-> <<>>, logged |-> <<>>]
         IN  Handled("returned", Nil, send.sent, send.logged,
                     <<"credit_reconciliation_files_processed">>)

\* The processors that can be registered, in registration order; "mock" is the
\* test's MockProcessor, whose Handle returns nil.
Registry == <<"correction", "reconciliation", "mock">>

\* processor.Handle(file) of a registered processor.
Handle(p, cfg, svc, file) ==
    CASE p = "correction" -> correctionHandle(cfg, svc, file)
      [] p = "reconciliation" -> creditReconciliationHandle(cfg, svc, file)
      [] OTHER -> Skipped

RECURSIVE HandleAll(_, _, _, _)
\* processDir's dispatch of one file: Handle of every registered processor in
\* registration order, the errors gathered into one; a panic ends the dispatch.
HandleAll(ps, cfg, svc, file) ==
    IF ps = <<>> THEN [called |-> <<>>, out |-> "returned", err |-> Nil, sent |-> <<>>]
    ELSE LET r == Handle(Head(ps), cfg, svc, file)
         IN  IF r.out = "panic"
             THEN [called |-> <<Head(ps)>>, out |-> "panic", err |-> Unset, sent |-> r.sent]
             ELSE LET t == HandleAll(Tail(ps), cfg, svc, file)
                  IN  [called |-> <<Head(ps)>> \o t.called,
                       out |-> t.out,
                       err |-> IF t.out = "panic" THEN Unset ELSE r.err \o t.err,
                       sent |-> r.sent \o t.sent]

\* Everything but the file at the processors.
scheduler == <<members, observed, shardNames, tk, admin, cancel, pc, idx, waiter, served,
               held, trace, alerts, ret, active, startRet>>

\* The enabled subconfig a processor is built with.
Enabled(matcher) == [Enabled |-> TRUE, PathMatcher |-> matcher]

\* correctionProcessor.Handle(file), for every path matcher and emitter.
HandleCorrection ==
    /\ hd.pc = "ready"
    /\ \E m \in Matchers, svc \in Emitters :
           hd' = [pc |-> "handled", file |-> hd.file, by |-> "correction",
                  cfg |-> Enabled(m), svc |-> svc,
                  res |-> correctionHandle(Enabled(m), svc, hd.file)]
    /\ UNCHANGED scheduler

\* creditReconciliation.Handle(file), for every path matcher and emitter.
HandleReconciliation ==
    /\ hd.pc = "ready"
    /\ \E m \in Matchers, svc \in Emitters :
           hd' = [pc |-> "handled", file |-> hd.file, by |-> "reconciliation",
                  cfg |-> Enabled(m), svc |-> svc,
                  res |-> creditReconciliationHandle(Enabled(m), svc, hd.file)]
    /\ UNCHANGED scheduler

\* processDir on the file, for every set of registered processors.
ProcessDir ==
    /\ hd.pc = "ready"
    /\ \E set \in SUBSET {Registry[k] : k \in 1..Len(Registry)},
          m \in Matchers, svc \in Emitters :
           LET InSet(p) == p \in set
               registered == SelectSeq(Registry, InSet)
           IN  hd' = [pc |-> "dispatched", file |-> hd.file, registered |-> registered,
                      cfg |-> Enabled(m), svc |-> svc,
                      res |-> HandleAll(registered, Enabled(m), svc, hd.file)]
    /\ UNCHANGED scheduler

\* A staged file read by processDir: any path, parsed or not.
HandleInit ==
    /\ members = {}
    /\ observed = {}
    /\ shardNames = <<>>
    /\ Constructed
    /\ tk = Off
    /\ hd \in [pc : {"ready"}, file : Files]

HandleNext ==
    \/ HandleCorrection
    \/ HandleReconciliation
    \/ ProcessDir

HandleSpec == HandleInit /\ [][HandleNext]_vars

\* Handle of processor p has been called on the file.
HandledBy(p) == hd.pc = "handled" /\ hd.by = p

Parsed == hd.file.ACHFile # NoFile

\* C15 as stated: a file that failed ACH parsing is dispatched to every
\* registered processor with a nil ACHFile, and processDir returns no error,
\* for every set of registered processors.
C15_UnparsedNeverFails ==
    (hd.pc = "dispatched" /\ ~Parsed) =>
        /\ hd.res.called = hd.registered
        /\ hd.res.out = "returned"
        /\ hd.res.err = Nil

\* C16 as stated: called with a File whose ACHFile is nil, Handle of the
\* correction processor and of the reconciliation processor returns without a
\* panic and emits no event.
C16_NilGuarded ==
    ((HandledBy("correction") \/ HandledBy("reconciliation")) /\ ~Parsed) =>
        /\ hd.res.out = "returned"
        /\ hd.res.sent = <<>>

\* C17 as stated: for a parsed file with no NotificationOfChange batch the
\* correction processor's Handle returns nil and sends no event, whatever the
\* path matcher is.
C17_NoEventWithoutNOC ==
    (HandledBy("correction") /\ Parsed /\ hd.file.ACHFile.NotificationOfChange = <<>>) =>
        /\ hd.res.out = "returned"
        /\ hd.res.err = Nil
        /\ hd.res.sent = <<>>

\* Handle got past its path filter: the correction processor then gives an event
\* to its emitter, the reconciliation processor counts the file.
PassedFilter ==
    \/ HandledBy("correction") /\ hd.res.sent # <<>>
    \/ HandledBy("reconciliation") /\ hd.res.counted # <<>>

\* C18 as stated: with a non-empty matcher M, a file with path P (parsed, and
\* for the correction processor holding a NotificationOfChange batch) passes the
\* path filter of either processor exactly when lowercase(M) is a substring of
\* lowercase(P).
C18_MatcherCaseInsensitive ==
    (/\ hd.pc = "handled" /\ Parsed /\ hd.cfg.PathMatcher # <<>> /\ hd.svc # "nil"
     /\ hd.by = "correction" => hd.file.ACHFile.NotificationOfChange # <<>>) =>
        (PassedFilter <=>
             Contains(ToLower(hd.file.Filepath), ToLower(hd.cfg.PathMatcher)))

\* The path filter as the reconciliation processor applies it.
ReconPathMatches ==
    hd.cfg.PathMatcher # <<>> /\ Contains(ToLower(hd.file.Filepath), hd.cfg.PathMatcher)

\* The summary of every batch of a list: its header and its entries in order.
Summaries(batches) == [i \in 1..Len(batches) |-> [Header |-> batches[i].Header,
                                                   Entries |-> batches[i].Entries]]

\* C19 as stated: for a parsed file whose path matches the non-empty matcher,
\* Handle emits exactly one ReconciliationFile event with the parsed file and
\* one summary per batch of the file in batch order; for a path that does not
\* match it emits nothing and returns nil.
C19_OneSummaryPerBatch ==
    (HandledBy("reconciliation") /\ Parsed /\ hd.svc # "nil") =>
        IF ReconPathMatches
        THEN /\ Len(hd.res.sent) = 1
             /\ hd.res.sent[1].Event = "ReconciliationFile"
             /\ hd.res.sent[1].File = hd.file.ACHFile
             /\ hd.res.sent[1].Reconciliations = Summaries(hd.file.ACHFile.Batches)
        ELSE hd.res.sent = <<>> /\ hd.res.err = Nil

\* The batches that have at least one entry, in batch order.
WithEntries(batches) ==
    LET HasEntries(b) == b.Entries # <<>>
    IN  SelectSeq(batches, HasEntries)

\* C19 amended: for a parsed file whose lower-cased path contains the non-empty
\* matcher, Handle returns nil and, when at least one batch has entries and an
\* emitter is set, sends exactly one ReconciliationFile event with the file name,
\* the parsed file and one summary per batch that has entries, in batch order;
\* with no such batch, no emitter or a path that does not match it sends nothing.
C19_OneSummaryPerNonEmptyBatch ==
    (HandledBy("reconciliation") /\ Parsed) =>
        /\ hd.res.out = "returned"
        /\ hd.res.err = Nil
        /\ IF ReconPathMatches /\ hd.svc # "nil"
              /\ WithEntries(hd.file.ACHFile.Batches) # <<>>
           THEN hd.res.sent =
                    <<[Event |-> "ReconciliationFile",
                       Filename |-> Base(hd.file.Filepath),
                       File |-> hd.file.ACHFile,
                       Reconciliations |-> Summaries(WithEntries(hd.file.ACHFile.Batches))]>>
           ELSE hd.res.sent = <<>>

\* A matching file of two batches, the first without entries: one event whose
\* only summary is the second batch.
C19_Witness ==
    /\ HandledBy("reconciliation")
    /\ Parsed
    /\ ReconPathMatches
    /\ Len(hd.file.ACHFile.Batches) = 2
    /\ hd.file.ACHFile.Batches[1].Entries = <<>>
    /\ Len(hd.res.sent) = 1
    /\ Len(hd.res.sent[1].Reconciliations) = 1
    /\ hd.res.sent[1].Reconciliations[1].Header = 2

\* The path filter as the correction processor applies it.
CorrectionPathPasses ==
    hd.cfg.PathMatcher = <<>> \/ Contains(ToLower(hd.file.Filepath), hd.cfg.PathMatcher)

RECURSIVE EntriesOf(_)
\* The entries of the batches, in order.
EntriesOf(batches) ==
    IF batches = <<>> THEN <<>>
    ELSE Head(batches).Entries \o EntriesOf(Tail(batches))

\* C20: for a parsed file that passes the correction processor's path filter,
\* Handle returns nil, gives its emitter exactly one CorrectionFile event whose
\* Corrections are the NotificationOfChange batches in order, and increments the
\* change-code counter once per entry with an Addenda98, with that entry's code,
\* in order; a failing Send changes neither the result nor the increments.
C20_CorrectionEvent ==
    (HandledBy("correction") /\ Parsed /\ CorrectionPathPasses) =>
        LET noc == hd.file.ACHFile.NotificationOfChange
            HasAddenda(e) == e.Addenda98 # None
            coded == SelectSeq(EntriesOf(noc), HasAddenda)
        IN  /\ hd.res.out = "returned"
            /\ hd.res.err = Nil
            /\ hd.res.counted = [n \in 1..Len(coded) |-> coded[n].Addenda98]
            /\ IF hd.svc = "nil" THEN hd.res.sent = <<>>
               ELSE /\ Len(hd.res.sent) = 1
                    /\ hd.res.sent[1].Event = "CorrectionFile"
                    /\ hd.res.sent[1].Corrections = Summaries(noc)
            /\ hd.res.logged # <<>> <=> hd.svc = "failing"

\* A file with two notification-of-change batches, entries with and without an
\* Addenda98, handled with an emitter whose Send fails.
C20_Witness ==
    /\ HandledBy("correction")
    /\ Parsed
    /\ hd.cfg.PathMatcher # <<>>
    /\ hd.svc = "failing"
    /\ Len(hd.file.ACHFile.NotificationOfChange) = 2
    /\ Len(hd.res.sent) = 1
    /\ Len(hd.res.counted) = 3

\* The calls tick has made, in order.
TickCalls ==
    LET IsCall(o) == o.file = 0
        calls == SelectSeq(tk.ops, IsCall)
    IN  [n \in 1..Len(calls) |-> calls[n].op]

\* The calls of a tick in which nothing fails, under the storage policy.
Pipeline ==
    <<"New", "CopyFilesFromRemote", "newAuditSaver", "ProcessFiles">> \o PlannedCleanup

\* The call before cleanup that has failed in the tick followed, if any.
FailedBeforeCleanup ==
    {c \in {"New", "CopyFilesFromRemote", "newAuditSaver", "ProcessFiles"} :
        /\ Called(c)
        /\ CASE c = "New" -> tk.fault = "agent"
             [] c = "CopyFilesFromRemote" -> CopyFilesFromRemote(tk.remote).err # Nil
             [] c = "newAuditSaver" -> tk.fault = "audit"
             [] OTHER -> ProcessFiles(tk.dl, tk.remote, tk.fault = "process").err # Nil}

\* C21: when upload.New, CopyFilesFromRemote, newAuditSaver or ProcessFiles
\* fails, tick has returned an error with that call as its last one: no cleanup
\* call and no remote delete is made, whatever the storage flags; and the calls
\* of a tick are always a prefix of the pipeline, so a step runs only after all
\* the earlier ones succeeded.
C21_NoCleanupAfterFailure ==
    /\ \E n \in 0..Len(Pipeline) : TickCalls = SubSeq(Pipeline, 1, n)
    /\ \A c \in FailedBeforeCleanup :
           /\ TickDone
           /\ tk.err # Nil
           /\ tk.err # Unset
           /\ TickCalls[Len(TickCalls)] = c
           /\ CleanupCalls = <<>>
           /\ RemoteDeletes = {}
    /\ (TickDone /\ tk.err = Nil) => TickCalls = Pipeline

\* A tick whose policy asks for every cleanup step and whose ProcessFiles
\* failed after handling a file: it ended with the error and no cleanup call.
C21_Witness ==
    /\ TickDone
    /\ FailedBeforeCleanup = {"ProcessFiles"}
    /\ ~tk.storage.KeepRemoteFiles
    /\ tk.storage.RemoveZeroByteFiles
    /\ tk.storage.CleanupLocalDirectory
    /\ \E f \in Retrieved : HandlesOf(f) # {} /\ tk.remote[f].zero
    /\ CleanupCalls = <<>>

====
